---- MODULE Spec2Model ----
(***************************************************************************)
(* SwiftStorageReconciler.Reconcile (controllers/swiftstorage_controller.go)*)
(* as a state machine.  One reconciliation for one key is a sequence of    *)
(* steps, one platform call per step; between two steps the platform, the  *)
(* user and the sibling components may change the objects the reconciler   *)
(* reads.  The per-key work queue runs at most one reconciliation at a     *)
(* time, so there is one program counter.                                  *)
(***************************************************************************)
EXTENDS Integers, Sequences, FiniteSets, TLC

VARIABLES
    cr,           \* the SwiftStorage object as stored by the API server
    cms,          \* names of the config bundles (config-data, scripts) stored
    ring,         \* the ring ConfigMap (RingConfigMapName) exists
    svc,          \* the headless Service, or NoService
    np,           \* the NetworkPolicy, or NoNetworkPolicy
    sts,          \* the StatefulSet: exists, Spec.Replicas, Status.ReadyReplicas
    claims,       \* replica index -> the PersistentVolumeClaim of that replica
    devcm,        \* devices.csv of the device ConfigMap, or NoResource
    pc,           \* position of the reconciliation: "idle" when none runs,
                  \* "returned" when Reconcile has returned to the work queue
    instance,     \* the in-memory copy Reconcile works on
    fresh,        \* the in-memory copy still has the stored resourceVersion
    ssetReady,    \* sset.GetStatefulSet().Status.ReadyReplicas after the apply
    devices,      \* the string getDeviceList returned
    result,       \* the (ctrl.Result, error) the last Reconcile returned
    endedAt,      \* the step the last Reconcile returned from
    io,           \* what the platform call of the last step returned
    wrote,        \* the writes of the current (or last) reconciliation, in order
    ringObserved, \* the ring lookup of this reconciliation found the bundle
    queued        \* the key is in the work queue of the controller

vars == <<cr, cms, ring, svc, np, sts, claims, devcm, pc, instance, fresh,
          ssetReady, devices, result, endedAt, io, wrote, ringObserved, queued>>

---------------------------------------------------------------------------
(* Bounds and constants *)

\* largest Spec.Replicas a user asks for (bound of the model)
MaxReplicas == 2

\* 1000 * 1000 * 1000, the byte-to-GB divisor of getDeviceList
BytesPerGB == 1000000000

\* capacities (bytes) a claim is bound with in the reconciliation model
ClaimCapacities == {1999999999}

\* name of the reconciled SwiftStorage object
InstanceName == "alpha"

\* object names and claim capacities (bytes) the device list is computed for
DeviceNames == {"alpha", "s1"}
DeviceCapacities == {999999999, 1000000000, 1999999999, 2147483647}

Range(seq) == {seq[i] : i \in 1..Len(seq)}

\* a resource that is not stored
NoResource == "absent"
NoService == [name |-> "", clusterIP |-> "", ports |-> <<>>]
NoNetworkPolicy == [name |-> "", podSelector |-> "", ingress |-> <<>>]

---------------------------------------------------------------------------
(* Conditions (lib-common condition package, as used by Reconcile) *)

ReadyCondition == "Ready"
SwiftStorageReadyCondition == "SwiftStorageReady"
ConditionTypes == {ReadyCondition, SwiftStorageReadyCondition}

UnknownCondition(t) == [type |-> t, status |-> "Unknown"]
TrueCondition(t) == [type |-> t, status |-> "True"]

HasCondition(conds, t) == \E i \in 1..Len(conds) : conds[i].type = t

\* mutant: Set appends without looking for an entry of the same type
ConditionsSet_append(conds, c) == Append(conds, c)

\* Conditions.Set: replace the entry of the same type, else append
ConditionsSet(conds, c) ==
    IF HasCondition(conds, c.type)
    THEN [i \in 1..Len(conds) |-> IF conds[i].type = c.type THEN c ELSE conds[i]]
    ELSE Append(conds, c)

RECURSIVE ConditionsSetAll(_, _)
ConditionsSetAll(conds, cl) ==
    IF cl = <<>> THEN conds
    ELSE ConditionsSetAll(ConditionsSet(conds, Head(cl)), Tail(cl))

\* Conditions.Init(&cl): Ready first, then every condition of the list
ConditionsInit(cl) ==
    ConditionsSetAll(<<UnknownCondition(ReadyCondition)>>, cl)

\* Conditions.MarkTrue(t, msg)
MarkTrue(conds, t) == ConditionsSet(conds, TrueCondition(t))

\* status of a condition type; a condition that is not there reads Unknown
StatusOf(conds, t) ==
    IF HasCondition(conds, t)
    THEN (CHOOSE c \in {conds[i] : i \in 1..Len(conds)} : c.type = t).status
    ELSE "Unknown"

TypesOf(conds) == {conds[i].type : i \in 1..Len(conds)}

---------------------------------------------------------------------------
(* Resource generators *)

\* getStorageConfigMapTemplates: <name>-config-data, then <name>-scripts
getStorageConfigMapTemplates(name) == <<name \o "-config-data", name \o "-scripts">>

\* the port constants of package swift, each standing for its own number
AccountServerPort == "swift.AccountServerPort"
ContainerServerPort == "swift.ContainerServerPort"
ObjectServerPort == "swift.ObjectServerPort"
RsyncPort == "swift.RsyncPort"
MemcachedPort == "swift.MemcachedPort"

\* swift.GetLabelsStorage() and swift.GetLabelsProxy(): the pod labels of the
\* storage role and of the proxy role
GetLabelsStorage == "storage"
GetLabelsProxy == "proxy"

\* getPorts(port, name): the one container port of a container
getPorts(port, name) == <<[containerPort |-> port, name |-> name]>>

\* the Ports of the containers of getStorageContainers that declare one, in
\* the order of the container list
ContainerPorts ==
    getPorts(AccountServerPort, "account")
      \o getPorts(ContainerServerPort, "container")
      \o getPorts(ObjectServerPort, "object")
      \o getPorts(RsyncPort, "rsync")
      \o getPorts(MemcachedPort, "memcached")

\* mutant: the memcached port is published with the others
getStorageService_withCache(name) ==
    [name |-> name,
     clusterIP |-> "None",
     ports |-> << [name |-> "account", port |-> AccountServerPort],
                  [name |-> "container", port |-> ContainerServerPort],
                  [name |-> "object", port |-> ObjectServerPort],
                  [name |-> "rsync", port |-> RsyncPort],
                  [name |-> "memcached", port |-> MemcachedPort] >>]

\* getStorageService: the four service ports of the headless Service
getStorageService(name) ==
    [name |-> name,
     clusterIP |-> "None",
     ports |-> << [name |-> "account", port |-> AccountServerPort],
                  [name |-> "container", port |-> ContainerServerPort],
                  [name |-> "object", port |-> ObjectServerPort],
                  [name |-> "rsync", port |-> RsyncPort] >>]

\* mutant: the rule for the proxy pods is a copy of the rule for the peers
getStorageNetworkPolicy_proxyRsync(name) ==
    [name |-> "np-" \o name,
     podSelector |-> GetLabelsStorage,
     ingress |-> << [from |-> <<GetLabelsStorage>>,
                     ports |-> <<AccountServerPort, ContainerServerPort,
                                 ObjectServerPort, RsyncPort>>],
                    [from |-> <<GetLabelsProxy>>,
                     ports |-> <<AccountServerPort, ContainerServerPort,
                                 ObjectServerPort, RsyncPort>>] >>]

\* getStorageNetworkPolicy: two ingress rules, each with its ports and the pod
\* selector of its one peer
getStorageNetworkPolicy(name) ==
    [name |-> "np-" \o name,
     podSelector |-> GetLabelsStorage,
     ingress |-> << [from |-> <<GetLabelsStorage>>,
                     ports |-> <<AccountServerPort, ContainerServerPort,
                                 ObjectServerPort, RsyncPort>>],
                    [from |-> <<GetLabelsProxy>>,
                     ports |-> <<AccountServerPort, ContainerServerPort,
                                 ObjectServerPort>>] >>]

\* one container of the pod template: name, image field of the object, ports,
\* command
Container(name, image, ports, command) ==
    [name |-> name, image |-> image, ports |-> ports, command |-> command]

\* getStorageContainers: the container list of the pod template, as written
getStorageContainers ==
    << Container("account-server", "ContainerImageAccount",
                 getPorts(AccountServerPort, "account"),
                 <<"/usr/bin/swift-account-server", "/etc/swift/account-server.conf", "-v">>),
       Container("account-replicator", "ContainerImageAccount", <<>>,
                 <<"/usr/bin/swift-account-replicator", "/etc/swift/account-server.conf", "-v">>),
       Container("account-auditor", "ContainerImageAccount", <<>>,
                 <<"/usr/bin/swift-account-auditor", "/etc/swift/account-server.conf", "-v">>),
       Container("account-reaper", "ContainerImageAccount", <<>>,
                 <<"/usr/bin/swift-account-reaper", "/etc/swift/account-server.conf", "-v">>),
       Container("container-server", "ContainerImageContainer",
                 getPorts(ContainerServerPort, "container"),
                 <<"/usr/bin/swift-container-server", "/etc/swift/container-server.conf", "-v">>),
       Container("container-replicator", "ContainerImageContainer", <<>>,
                 <<"/usr/bin/swift-container-replicator", "/etc/swift/container-server.conf", "-v">>),
       Container("container-auditor", "ContainerImageContainer", <<>>,
                 <<"/usr/bin/swift-container-replicator", "/etc/swift/container-server.conf", "-v">>),
       Container("container-updater", "ContainerImageContainer", <<>>,
                 <<"/usr/bin/swift-container-replicator", "/etc/swift/container-server.conf", "-v">>),
       Container("object-server", "ContainerImageObject",
                 getPorts(ObjectServerPort, "object"),
                 <<"/usr/bin/swift-object-server", "/etc/swift/object-server.conf", "-v">>),
       Container("object-replicator", "ContainerImageObject", <<>>,
                 <<"/usr/bin/swift-object-replicator", "/etc/swift/object-server.conf", "-v">>),
       Container("object-auditor", "ContainerImageObject", <<>>,
                 <<"/usr/bin/swift-object-replicator", "/etc/swift/object-server.conf", "-v">>),
       Container("object-updater", "ContainerImageObject", <<>>,
                 <<"/usr/bin/swift-object-replicator", "/etc/swift/object-server.conf", "-v">>),
       Container("object-expirer", "ContainerImageProxy", <<>>,
                 <<"/usr/bin/swift-object-expirer", "/etc/swift/object-expirer.conf", "-v">>),
       Container("rsync", "ContainerImageObject", getPorts(RsyncPort, "rsync"),
                 <<"/usr/bin/rsync", "--daemon", "--no-detach",
                   "--config=/etc/swift/rsyncd.conf", "--log-file=/dev/stdout">>),
       Container("memcached", "ContainerImageMemcached",
                 getPorts(MemcachedPort, "memcached"),
                 <<"/usr/bin/memcached", "-p", "11211", "-u", "memcached">>),
       Container("ring-sync", "ContainerImageProxy", <<>>,
                 <<"/usr/local/bin/container-scripts/ring-sync.sh">>) >>

\* getStorageInitContainers: the one init container
getStorageInitContainers ==
    << Container("swift-init", "ContainerImageAccount", <<>>,
                 <<"/usr/local/bin/container-scripts/swift-init.sh">>) >>

\* mutant: the replica count of the object is not handed to the workload
getStorageStatefulSet_single(inst) ==
    [name |-> inst.name, replicas |-> 1,
     initContainers |-> getStorageInitContainers, containers |-> getStorageContainers]

\* getStorageStatefulSet: Spec.Replicas is &swiftstorage.Spec.Replicas, the
\* pod template has the init container and the container list
getStorageStatefulSet(inst) ==
    [name |-> inst.name, replicas |-> inst.replicas,
     initContainers |-> getStorageInitContainers, containers |-> getStorageContainers]

---------------------------------------------------------------------------
(* Capacity discovery *)

MissingClaim == [present |-> FALSE, bound |-> FALSE, capacity |-> 0]
UnboundClaim == [present |-> TRUE, bound |-> FALSE, capacity |-> 0]
BoundClaim(c) == [present |-> TRUE, bound |-> TRUE, capacity |-> c]

\* foundClaim.Status.Capacity["storage"] followed by AsInt64: a claim with no
\* capacity entry yields the zero Quantity, which converts to 0
CapacityInt64(claim) == IF claim.bound THEN claim.capacity ELSE 0

\* mutant: the capacity is divided by 1024^3 instead of 1000^3
DeviceLine_binary(name, replica, claim) ==
    name \o "-" \o ToString(replica) \o "." \o name \o ",d1,"
         \o ToString(CapacityInt64(claim) \div (1024 * 1024 * 1024)) \o "\n"

\* one line of devices.csv: "%s-%d.%s" host, "d1", capacity in whole GB
DeviceLine(name, replica, claim) ==
    name \o "-" \o ToString(replica) \o "." \o name \o ",d1,"
         \o ToString(CapacityInt64(claim) \div BytesPerGB) \o "\n"

\* the Get of one claim fails: claim not found, or the call itself failed
ClaimGetFails(cl, replica, failAt) == ~cl[replica].present \/ replica = failAt

\* mutant: a failed Get returns the lines written so far with the error
RECURSIVE DeviceLoop_partial(_, _, _, _, _, _)
DeviceLoop_partial(name, replicas, cl, failAt, replica, acc) ==
    IF replica >= replicas THEN [devices |-> acc, err |-> FALSE]
    ELSE IF ClaimGetFails(cl, replica, failAt) THEN [devices |-> acc, err |-> TRUE]
    ELSE DeviceLoop_partial(name, replicas, cl, failAt, replica + 1,
                            acc \o DeviceLine(name, replica, cl[replica]))

\* the loop of getDeviceList from index replica on, acc is the builder
RECURSIVE DeviceLoop(_, _, _, _, _, _)
DeviceLoop(name, replicas, cl, failAt, replica, acc) ==
    IF replica >= replicas THEN [devices |-> acc, err |-> FALSE]
    ELSE IF ClaimGetFails(cl, replica, failAt) THEN [devices |-> "", err |-> TRUE]
    ELSE DeviceLoop(name, replicas, cl, failAt, replica + 1,
                    acc \o DeviceLine(name, replica, cl[replica]))

\* getDeviceList(ctx, h, instance); failAt is the replica index whose Get
\* fails in the platform, -1 when none does
getDeviceList(name, replicas, cl, failAt) ==
    DeviceLoop(name, replicas, cl, failAt, 0, "")

---------------------------------------------------------------------------
(* The state a reconciliation step reads and writes, as one record *)

World ==
    [cr |-> cr, cms |-> cms, ring |-> ring, svc |-> svc, np |-> np, sts |-> sts,
     claims |-> claims, devcm |-> devcm, pc |-> pc, instance |-> instance,
     fresh |-> fresh, ssetReady |-> ssetReady, devices |-> devices,
     result |-> result, endedAt |-> endedAt, io |-> io, wrote |-> wrote,
     ringObserved |-> ringObserved]

NoObject ==
    [exists |-> FALSE, deleting |-> FALSE, name |-> "", replicas |-> 0, conds |-> <<>>]
NoInstance == [name |-> "", replicas |-> 0, conds |-> <<>>, deleting |-> FALSE]
NoStatefulSet == [exists |-> FALSE, replicas |-> 0, ready |-> 0]

IsErr(o) == o \in {"err", "err2"}

\* 5*time.Second, the timeout handed to GetConfigMap and to the apply helpers
RequeueSeconds == 5

\* the (ctrl.Result, error) pairs Reconcile returns
ResultDone == [requeueAfter |-> 0, err |-> FALSE]
ResultRetry == [requeueAfter |-> RequeueSeconds, err |-> FALSE]
ResultError == [requeueAfter |-> 0, err |-> TRUE]

\* return ctrl.Result{...}, err: the reconciliation ends, its locals are gone
Return(w, res, o) ==
    [w EXCEPT !.pc = "returned", !.result = res, !.endedAt = w.pc, !.io = o,
              !.instance = NoInstance, !.fresh = TRUE, !.ssetReady = 0,
              !.devices = ""]

\* the step succeeded: on to the next one
Goto(w, next, o) == [w EXCEPT !.pc = next, !.io = o]

Wrote(w, what) == [w EXCEPT !.wrote = Append(w.wrote, what)]

---------------------------------------------------------------------------
(* Reconcile, step by step.  o is what the platform call of the step       *)
(* returned: "ok", "err" (the call failed), "requeue" (an apply that found  *)
(* its object gone), "none" when the step makes no call.                    *)

\* mutant: an object that is not found is reported as an error
Load_notFoundFails(w, o) ==
    LET s == [w EXCEPT !.wrote = <<>>, !.ringObserved = FALSE, !.result = ResultDone,
                       !.pc = "load"]
    IN IF IsErr(o) \/ ~w.cr.exists THEN Return(s, ResultError, o)
       ELSE Goto([s EXCEPT !.instance = [name |-> w.cr.name,
                                         replicas |-> w.cr.replicas,
                                         conds |-> w.cr.conds,
                                         deleting |-> w.cr.deleting],
                           !.fresh = TRUE],
                 "init", o)

\* r.Get(ctx, req.NamespacedName, instance)
Load(w, o) ==
    LET s == [w EXCEPT !.wrote = <<>>, !.ringObserved = FALSE, !.result = ResultDone,
                       !.pc = "load"]
    IN IF IsErr(o) THEN Return(s, ResultError, o)
       ELSE IF ~w.cr.exists THEN Return(s, ResultDone, o)
       ELSE Goto([s EXCEPT !.instance = [name |-> w.cr.name,
                                         replicas |-> w.cr.replicas,
                                         conds |-> w.cr.conds,
                                         deleting |-> w.cr.deleting],
                           !.fresh = TRUE],
                 "init", o)

\* instance.Status.Conditions == nil
ConditionsNil(inst) == inst.conds = <<>>

\* the condition list of a new object
InitialConditions ==
    ConditionsInit(<<UnknownCondition(ReadyCondition),
                     UnknownCondition(SwiftStorageReadyCondition)>>)

\* mutant: the error of the status update is dropped
InitConditions_ignoreErr(w, o) ==
    IF ~ConditionsNil(w.instance) THEN Goto(w, "delguard", o)
    ELSE IF IsErr(o)
    THEN Goto([w EXCEPT !.instance.conds = InitialConditions], "delguard", o)
    ELSE Goto(Wrote([w EXCEPT !.instance.conds = InitialConditions,
                              !.cr.conds = InitialConditions],
                    "conditions"),
              "delguard", o)

\* if Conditions == nil: Init and r.Status().Update
InitConditions(w, o) ==
    IF ~ConditionsNil(w.instance) THEN Goto(w, "delguard", o)
    ELSE IF IsErr(o) THEN Return(w, ResultError, o)
    ELSE Goto(Wrote([w EXCEPT !.instance.conds = InitialConditions,
                              !.cr.conds = InitialConditions],
                    "conditions"),
              "delguard", o)

\* mutant: the guard cleans up, it deletes the children of a deleting object
DeletionGuard_cleanup(w, o) ==
    IF w.instance.deleting
    THEN Return([w EXCEPT !.cms = {}, !.svc = NoService, !.np = NoNetworkPolicy,
                          !.sts = NoStatefulSet, !.devcm = NoResource],
                ResultDone, o)
    ELSE Goto(w, "configmaps", o)

\* mutant: the deletion timestamp is not looked at
DeletionGuard_continue(w, o) == Goto(w, "configmaps", o)

\* if !instance.DeletionTimestamp.IsZero() return
DeletionGuard(w, o) ==
    IF w.instance.deleting THEN Return(w, ResultDone, o)
    ELSE Goto(w, "configmaps", o)

\* configmap.EnsureConfigMaps(getStorageConfigMapTemplates): the templates are
\* applied in order, "err" fails at the first, "err2" at the second
EnsureConfigMaps(w, o) ==
    LET tpl == getStorageConfigMapTemplates(w.instance.name)
    IN IF o = "err" THEN Return(w, ResultError, o)
       ELSE IF o = "err2"
       THEN Return(Wrote([w EXCEPT !.cms = w.cms \cup {tpl[1]}], "config"), ResultError, o)
       ELSE Goto(Wrote([w EXCEPT !.cms = w.cms \cup {tpl[1], tpl[2]}], "config"),
                 "ring", o)

\* mutant: the lookup result is ignored, a missing ring bundle does not stop
RingLookupRequeues_never(w) == FALSE

\* configmap.GetConfigMap(RingConfigMapName, 5s): not found is a requeue result
RingLookupRequeues(w) == ~w.ring

\* mutant: a missing ring bundle ends Reconcile without a retry request
WaitForRingConfig_done(w, o) ==
    IF IsErr(o) THEN Return(w, ResultError, o)
    ELSE IF RingLookupRequeues(w) THEN Return(w, ResultDone, o)
    ELSE Goto([w EXCEPT !.ringObserved = w.ring], "service", o)

\* mutant: a missing ring bundle is returned as an error
WaitForRingConfig_error(w, o) ==
    IF IsErr(o) \/ RingLookupRequeues(w) THEN Return(w, ResultError, o)
    ELSE Goto([w EXCEPT !.ringObserved = w.ring], "service", o)

WaitForRingConfig(w, o) ==
    IF IsErr(o) THEN Return(w, ResultError, o)
    ELSE IF RingLookupRequeues(w) THEN Return(w, ResultRetry, o)
    ELSE Goto([w EXCEPT !.ringObserved = w.ring], "service", o)

\* mutant: the retry result of the Service apply is dropped, Reconcile goes on
EnsureService_ignoreRequeue(w, o) ==
    IF IsErr(o) THEN Return(w, ResultError, o)
    ELSE IF o = "requeue" THEN Goto(w, "netpol", o)
    ELSE Goto(Wrote([w EXCEPT !.svc = getStorageService(w.instance.name)], "endpoint"),
              "netpol", o)

\* service.NewService(getStorageService(instance)).CreateOrPatch
EnsureService(w, o) ==
    IF IsErr(o) THEN Return(w, ResultError, o)
    ELSE IF o = "requeue" THEN Return(w, ResultRetry, o)
    ELSE Goto(Wrote([w EXCEPT !.svc = getStorageService(w.instance.name)], "endpoint"),
              "netpol", o)

\* mutant: a failed apply of the policy is logged and Reconcile goes on
EnsureNetworkPolicy_ignoreErr(w, o) ==
    IF IsErr(o) THEN Goto(w, "guardGet", o)
    ELSE IF o = "requeue" THEN Return(w, ResultRetry, o)
    ELSE Goto(Wrote([w EXCEPT !.np = getStorageNetworkPolicy(w.instance.name)], "policy"),
              "guardGet", o)

\* swift.NewNetworkPolicy(getStorageNetworkPolicy(instance)).CreateOrPatch
EnsureNetworkPolicy(w, o) ==
    IF IsErr(o) THEN Return(w, ResultError, o)
    ELSE IF o = "requeue" THEN Return(w, ResultRetry, o)
    ELSE Goto(Wrote([w EXCEPT !.np = getStorageNetworkPolicy(w.instance.name)], "policy"),
              "guardGet", o)

\* mutant: the comparison is the wrong way round, a downsize is not noticed
Downsizing_reversed(found, inst) == found.replicas < inst.replicas

\* *found.Spec.Replicas > instance.Spec.Replicas
Downsizing(found, inst) == found.replicas > inst.replicas

\* statefulset.GetStatefulSetWithName and the comparison of the replica counts
ScaleDownGuardGet(w, o) ==
    IF IsErr(o) THEN Return(w, ResultError, o)
    ELSE IF w.sts.exists /\ Downsizing(w.sts, w.instance)
    THEN Goto([w EXCEPT !.instance.replicas = w.sts.replicas], "guardUpdate", o)
    ELSE Goto(w, "sset", o)

\* mutant: a failed update of the raised replica count is logged only
ScaleDownGuardUpdate_ignoreErr(w, o) ==
    IF IsErr(o) THEN Goto(w, "sset", o)
    ELSE Goto(Wrote([w EXCEPT !.cr.replicas = w.instance.replicas], "replicas"),
              "sset", o)

\* mutant: the raised replica count is not persisted
ScaleDownGuardUpdate_local(w, o) ==
    IF IsErr(o) THEN Return(w, ResultError, o) ELSE Goto(w, "sset", o)

\* r.Client.Update(ctx, instance) with the raised replica count
ScaleDownGuardUpdate(w, o) ==
    IF IsErr(o) THEN Return(w, ResultError, o)
    ELSE Goto(Wrote([w EXCEPT !.cr.replicas = w.instance.replicas], "replicas"),
              "sset", o)

\* mutant: the patch of an existing StatefulSet leaves its replica count
ApplyStatefulSet_keepReplicas(old, gen) ==
    IF old.exists THEN old
    ELSE [exists |-> TRUE, replicas |-> gen.replicas, ready |-> 0]

\* what CreateOrPatch leaves in the platform for the generated StatefulSet
ApplyStatefulSet(old, gen) ==
    IF old.exists THEN [old EXCEPT !.replicas = gen.replicas]
    ELSE [exists |-> TRUE, replicas |-> gen.replicas, ready |-> 0]

\* mutant: a workload without a ready replica is never taken as ready
ReadyReplicasReached_positive(ready, inst) == ready = inst.replicas /\ ready > 0

\* mutant: readiness is not compared with the requested count
ReadyReplicasReached_always(ready, inst) == TRUE

\* sset.GetStatefulSet().Status.ReadyReplicas == instance.Spec.Replicas
ReadyReplicasReached(ready, inst) == ready = inst.replicas

\* mutant: a workload that is not ready puts the conditions back to Unknown
EnsureStatefulSet_resetReady(w, o) ==
    IF IsErr(o) THEN Return(w, ResultError, o)
    ELSE IF o = "requeue" THEN Return(w, ResultRetry, o)
    ELSE LET applied == ApplyStatefulSet(w.sts, getStorageStatefulSet(w.instance))
             s == Wrote([w EXCEPT !.sts = applied, !.ssetReady = applied.ready],
                        "workload")
         IN IF ReadyReplicasReached(applied.ready, w.instance)
            THEN Goto(s, "claims", o)
            ELSE Return([s EXCEPT !.cr.conds = InitialConditions], ResultDone, o)

\* mutant: a workload that is not ready yet is polled, Reconcile asks for a retry
EnsureStatefulSet_poll(w, o) ==
    IF IsErr(o) THEN Return(w, ResultError, o)
    ELSE IF o = "requeue" THEN Return(w, ResultRetry, o)
    ELSE LET applied == ApplyStatefulSet(w.sts, getStorageStatefulSet(w.instance))
             s == Wrote([w EXCEPT !.sts = applied, !.ssetReady = applied.ready],
                        "workload")
         IN IF ReadyReplicasReached(applied.ready, w.instance)
            THEN Goto(s, "claims", o)
            ELSE Return(s, ResultRetry, o)

\* statefulset.NewStatefulSet(getStorageStatefulSet(instance)).CreateOrPatch
\* and the readiness check on the object it returned
EnsureStatefulSet(w, o) ==
    IF IsErr(o) THEN Return(w, ResultError, o)
    ELSE IF o = "requeue" THEN Return(w, ResultRetry, o)
    ELSE LET applied == ApplyStatefulSet(w.sts, getStorageStatefulSet(w.instance))
             s == Wrote([w EXCEPT !.sts = applied, !.ssetReady = applied.ready],
                        "workload")
         IN IF ReadyReplicasReached(applied.ready, w.instance)
            THEN Goto(s, "claims", o)
            ELSE Return(s, ResultDone, o)

\* devices, err := getDeviceList(ctx, helper, instance)
DiscoverCapacity(w, o) ==
    LET r == getDeviceList(w.instance.name, w.instance.replicas, w.claims,
                           IF IsErr(o) THEN 0 ELSE -1)
    IN IF r.err THEN Return(w, ResultError, o)
       ELSE Goto([w EXCEPT !.devices = r.devices], "devcm", o)

\* getDeviceConfigMapTemplates: devices.csv holds the device list
getDeviceConfigMapTemplates(devs) == devs

\* mutant: a failed apply of the device manifest does not stop Reconcile
PublishDeviceManifest_ignoreErr(w, o) ==
    IF IsErr(o) THEN Goto(w, "markready", o)
    ELSE Goto(Wrote([w EXCEPT !.devcm = getDeviceConfigMapTemplates(w.devices)],
                    "manifest"),
              "markready", o)

\* mutant: an object that is Ready already keeps the manifest it has
PublishDeviceManifest_skipWhenReady(w, o) ==
    IF IsErr(o) THEN Return(w, ResultError, o)
    ELSE IF StatusOf(w.instance.conds, ReadyCondition) = "True"
    THEN Goto(w, "markready", o)
    ELSE Goto(Wrote([w EXCEPT !.devcm = getDeviceConfigMapTemplates(w.devices)],
                    "manifest"),
              "markready", o)

\* configmap.EnsureConfigMaps(getDeviceConfigMapTemplates(instance, devices))
PublishDeviceManifest(w, o) ==
    IF IsErr(o) THEN Return(w, ResultError, o)
    ELSE Goto(Wrote([w EXCEPT !.devcm = getDeviceConfigMapTemplates(w.devices)],
                    "manifest"),
              "markready", o)

\* mutant: only the Ready condition is marked
MarkReadyConditions_readyOnly(conds) == MarkTrue(conds, ReadyCondition)

\* mutant: the status is rebuilt from the Ready condition alone
MarkReadyConditions_fresh(conds) == <<TrueCondition(ReadyCondition)>>

\* the two MarkTrue calls on the in-memory conditions
MarkReadyConditions(conds) ==
    MarkTrue(MarkTrue(conds, ReadyCondition), SwiftStorageReadyCondition)

\* MarkTrue twice, r.Status().Update, then the final return
MarkReady(w, o) ==
    IF IsErr(o) THEN Return(w, ResultError, o)
    ELSE Return(Wrote([w EXCEPT !.cr.conds = MarkReadyConditions(w.instance.conds)],
                      "ready"),
                ResultDone, o)

\* the Update calls carry the resourceVersion of the in-memory copy: they
\* fail with a conflict once the stored object has changed
UpdateOutcomes(w) == IF w.fresh THEN {"ok", "err"} ELSE {"err"}

\* what the platform call of the step at w.pc may return
OutcomesAt(w) ==
    CASE w.pc = "idle" -> {"ok", "err"}
      [] w.pc = "init" -> IF ConditionsNil(w.instance) THEN UpdateOutcomes(w) ELSE {"none"}
      [] w.pc = "delguard" -> {"none"}
      [] w.pc = "configmaps" -> {"ok", "err", "err2"}
      [] w.pc = "ring" -> {"ok", "err"}
      [] w.pc \in {"service", "netpol", "sset"} -> {"ok", "err", "requeue"}
      [] w.pc = "guardGet" -> {"ok", "err"}
      [] w.pc = "guardUpdate" -> UpdateOutcomes(w)
      [] w.pc = "claims" -> IF w.instance.replicas > 0 THEN {"ok", "err"} ELSE {"ok"}
      [] w.pc = "devcm" -> {"ok", "err"}
      [] w.pc = "markready" -> UpdateOutcomes(w)

\* the step of Reconcile at w.pc
Step(w, o) ==
    CASE w.pc = "idle" -> Load(w, o)
      [] w.pc = "init" -> InitConditions(w, o)
      [] w.pc = "delguard" -> DeletionGuard(w, o)
      [] w.pc = "configmaps" -> EnsureConfigMaps(w, o)
      [] w.pc = "ring" -> WaitForRingConfig(w, o)
      [] w.pc = "service" -> EnsureService(w, o)
      [] w.pc = "netpol" -> EnsureNetworkPolicy(w, o)
      [] w.pc = "guardGet" -> ScaleDownGuardGet(w, o)
      [] w.pc = "guardUpdate" -> ScaleDownGuardUpdate(w, o)
      [] w.pc = "sset" -> EnsureStatefulSet(w, o)
      [] w.pc = "claims" -> DiscoverCapacity(w, o)
      [] w.pc = "devcm" -> PublishDeviceManifest(w, o)
      [] w.pc = "markready" -> MarkReady(w, o)

---------------------------------------------------------------------------
(* Actions *)

InstallWorld(w) ==
    /\ cr' = w.cr /\ cms' = w.cms /\ ring' = w.ring /\ svc' = w.svc /\ np' = w.np
    /\ sts' = w.sts /\ claims' = w.claims /\ devcm' = w.devcm /\ pc' = w.pc
    /\ instance' = w.instance /\ fresh' = w.fresh /\ ssetReady' = w.ssetReady
    /\ devices' = w.devices /\ result' = w.result /\ endedAt' = w.endedAt
    /\ io' = w.io /\ wrote' = w.wrote /\ ringObserved' = w.ringObserved

\* Reconcile may be called at any time: the key counts as always queued, except
\* in the specification of re-invocation (SpecLive), which keeps the queue
Install(w) == InstallWorld(w) /\ UNCHANGED queued

ReconcileLoad ==
    pc = "idle" /\ \E o \in OutcomesAt(World) : Install(Load(World, o))
ReconcileInitConditions ==
    pc = "init" /\ \E o \in OutcomesAt(World) : Install(InitConditions(World, o))
ReconcileDeletionGuard ==
    pc = "delguard" /\ \E o \in OutcomesAt(World) : Install(DeletionGuard(World, o))
ReconcileConfigMaps ==
    pc = "configmaps" /\ \E o \in OutcomesAt(World) : Install(EnsureConfigMaps(World, o))
ReconcileRingLookup ==
    pc = "ring" /\ \E o \in OutcomesAt(World) : Install(WaitForRingConfig(World, o))
ReconcileService ==
    pc = "service" /\ \E o \in OutcomesAt(World) : Install(EnsureService(World, o))
ReconcileNetworkPolicy ==
    pc = "netpol" /\ \E o \in OutcomesAt(World) : Install(EnsureNetworkPolicy(World, o))
ReconcileGuardGet ==
    pc = "guardGet" /\ \E o \in OutcomesAt(World) : Install(ScaleDownGuardGet(World, o))
ReconcileGuardUpdate ==
    pc = "guardUpdate" /\ \E o \in OutcomesAt(World) : Install(ScaleDownGuardUpdate(World, o))
ReconcileStatefulSet ==
    pc = "sset" /\ \E o \in OutcomesAt(World) : Install(EnsureStatefulSet(World, o))
ReconcileDeviceList ==
    pc = "claims" /\ \E o \in OutcomesAt(World) : Install(DiscoverCapacity(World, o))
ReconcileDeviceConfigMap ==
    pc = "devcm" /\ \E o \in OutcomesAt(World) : Install(PublishDeviceManifest(World, o))
ReconcileMarkReady ==
    pc = "markready" /\ \E o \in OutcomesAt(World) : Install(MarkReady(World, o))

\* the work queue takes the result of Reconcile; the key waits for its next
\* event (a change of the object or of a child, or the requested retry)
Dequeue(w) ==
    [w EXCEPT !.pc = "idle", !.result = ResultDone, !.endedAt = "none",
              !.io = "none", !.wrote = <<>>, !.ringObserved = FALSE]

QueueDone == pc = "returned" /\ Install(Dequeue(World))

\* no reconciliation is between its return and the work queue
Settled == pc # "returned"

\* A change of an object commutes with every step of Reconcile that does not
\* read the object, so the changes are taken while no reconciliation runs or
\* right before the step that reads the object.
BeforeRead(steps) == pc \in {"idle"} \cup steps

local ==
    <<pc, instance, ssetReady, devices, result, endedAt, io, wrote, ringObserved,
      queued>>
children == <<cms, svc, np, sts, devcm>>

\* a change of the stored object invalidates the copy of a running reconciliation
Stale == fresh' = (pc = "idle")

\* the user edits Spec.Replicas
UserEdit ==
    /\ BeforeRead({"init", "guardUpdate", "markready"})
    /\ cr.exists /\ ~cr.deleting
    /\ \E r \in 0..MaxReplicas : r # cr.replicas /\ cr' = [cr EXCEPT !.replicas = r]
    /\ Stale
    /\ UNCHANGED <<local, children, ring, claims>>

\* the user deletes the object: the deletion timestamp is set
UserDelete ==
    /\ Settled
    /\ cr.exists /\ ~cr.deleting
    /\ cr' = [cr EXCEPT !.deleting = TRUE]
    /\ Stale
    /\ UNCHANGED <<local, children, ring, claims>>

\* the platform removes the deleted object and, by owner reference, its children
PlatformCollect ==
    /\ Settled
    /\ cr.deleting \/ (~cr.exists /\ children # <<{}, NoService, NoNetworkPolicy, NoStatefulSet, NoResource>>)
    /\ cr' = NoObject
    /\ cms' = {} /\ svc' = NoService /\ np' = NoNetworkPolicy
    /\ sts' = NoStatefulSet /\ devcm' = NoResource
    /\ Stale
    /\ UNCHANGED <<local, ring, claims>>

\* the ring component publishes or withdraws the ring ConfigMap
RingChange ==
    /\ BeforeRead({"ring"})
    /\ ring' = ~ring
    /\ UNCHANGED <<local, children, cr, fresh, claims>>

\* the StatefulSet controller reports another number of ready replicas
WorkloadStatus ==
    /\ BeforeRead({"sset"})
    /\ sts.exists
    /\ \E k \in 0..sts.replicas : k # sts.ready /\ sts' = [sts EXCEPT !.ready = k]
    /\ UNCHANGED <<local, cms, svc, np, devcm, cr, fresh, ring, claims>>

\* the claim of a replica is created, bound with a capacity, or removed
ClaimChange ==
    /\ BeforeRead({"claims"})
    /\ sts.exists
    /\ \E i \in DOMAIN claims :
         /\ i < sts.replicas
         /\ \E c \in {MissingClaim, UnboundClaim} \cup {BoundClaim(b) : b \in ClaimCapacities} :
              c # claims[i] /\ claims' = [claims EXCEPT ![i] = c]
    /\ UNCHANGED <<local, children, cr, fresh, ring>>

Init ==
    /\ cr \in [exists : {TRUE}, deleting : {FALSE}, name : {InstanceName},
               replicas : 0..MaxReplicas, conds : {<<>>}]
    /\ cms = {} /\ ring \in BOOLEAN /\ svc = NoService /\ np = NoNetworkPolicy
    /\ sts = NoStatefulSet /\ devcm = NoResource
    /\ claims = [i \in 0..(MaxReplicas - 1) |-> MissingClaim]
    /\ pc = "idle" /\ instance = NoInstance /\ fresh = TRUE /\ ssetReady = 0
    /\ devices = "" /\ result = ResultDone /\ endedAt = "none" /\ io = "none"
    /\ wrote = <<>> /\ ringObserved = FALSE
    /\ queued = TRUE

Next ==
    \/ ReconcileLoad
    \/ ReconcileInitConditions
    \/ ReconcileDeletionGuard
    \/ ReconcileConfigMaps
    \/ ReconcileRingLookup
    \/ ReconcileService
    \/ ReconcileNetworkPolicy
    \/ ReconcileGuardGet
    \/ ReconcileGuardUpdate
    \/ ReconcileStatefulSet
    \/ ReconcileDeviceList
    \/ ReconcileDeviceConfigMap
    \/ ReconcileMarkReady
    \/ QueueDone
    \/ UserEdit
    \/ UserDelete
    \/ PlatformCollect
    \/ RingChange
    \/ WorkloadStatus
    \/ ClaimChange

\* The end of Reconcile, from the call of getDeviceList on, for every object
\* name, replica count and claim state: the workload has just been applied and
\* reports every replica ready.
InitDeviceList ==
    /\ \E n \in DeviceNames, r \in 0..MaxReplicas :
         /\ cr = [exists |-> TRUE, deleting |-> FALSE, name |-> n, replicas |-> r,
                  conds |-> InitialConditions]
         /\ instance = [name |-> n, replicas |-> r, conds |-> InitialConditions,
                        deleting |-> FALSE]
         /\ cms = Range(getStorageConfigMapTemplates(n))
         /\ svc = getStorageService(n) /\ np = getStorageNetworkPolicy(n)
         /\ sts = [exists |-> TRUE, replicas |-> r, ready |-> r]
         /\ ssetReady = r
    /\ claims \in [0..(MaxReplicas - 1) ->
                     {MissingClaim, UnboundClaim}
                        \cup {BoundClaim(b) : b \in DeviceCapacities}]
    /\ ring = TRUE /\ devcm = NoResource
    /\ pc = "claims" /\ fresh = TRUE /\ devices = "" /\ result = ResultDone
    /\ endedAt = "none" /\ io = "ok" /\ ringObserved = TRUE
    /\ wrote = <<"config", "endpoint", "policy", "workload">>
    /\ queued = TRUE

NextDeviceList ==
    \/ ReconcileDeviceList
    \/ ReconcileDeviceConfigMap
    \/ ReconcileMarkReady

SpecDeviceList == InitDeviceList /\ [][NextDeviceList]_vars

---------------------------------------------------------------------------
(* Two SwiftStorage objects in one namespace.  In this specification every   *)
(* variable of an object (cr, svc, np, sts, claims and the locals of its      *)
(* reconciliation) holds one value per key; the ConfigMaps of the namespace   *)
(* (cms, devcm, ring) are found by name and so are the same for both keys.    *)

\* the names of the two objects
Keys == {"alpha", "beta"}

\* swiftv1beta1.DeviceConfigMapName and swiftv1beta1.RingConfigMapName: package
\* constants, the same for every object
DeviceConfigMapName == "DeviceConfigMapName"
RingConfigMapName == "RingConfigMapName"

\* what the reconciliation of key k works on: its object, the children named
\* after it, and the ConfigMaps of the namespace
WorldOf(k) ==
    [cr |-> cr[k], cms |-> cms, ring |-> ring, svc |-> svc[k], np |-> np[k],
     sts |-> sts[k], claims |-> claims[k], devcm |-> devcm, pc |-> pc[k],
     instance |-> instance[k], fresh |-> fresh[k], ssetReady |-> ssetReady[k],
     devices |-> devices[k], result |-> result[k], endedAt |-> endedAt[k],
     io |-> io[k], wrote |-> wrote[k], ringObserved |-> ringObserved[k]]

InstallFor(k, w) ==
    /\ cr' = [cr EXCEPT ![k] = w.cr] /\ cms' = w.cms /\ ring' = w.ring
    /\ svc' = [svc EXCEPT ![k] = w.svc] /\ np' = [np EXCEPT ![k] = w.np]
    /\ sts' = [sts EXCEPT ![k] = w.sts] /\ claims' = [claims EXCEPT ![k] = w.claims]
    /\ devcm' = w.devcm /\ pc' = [pc EXCEPT ![k] = w.pc]
    /\ instance' = [instance EXCEPT ![k] = w.instance]
    /\ fresh' = [fresh EXCEPT ![k] = w.fresh]
    /\ ssetReady' = [ssetReady EXCEPT ![k] = w.ssetReady]
    /\ devices' = [devices EXCEPT ![k] = w.devices]
    /\ result' = [result EXCEPT ![k] = w.result]
    /\ endedAt' = [endedAt EXCEPT ![k] = w.endedAt]
    /\ io' = [io EXCEPT ![k] = w.io] /\ wrote' = [wrote EXCEPT ![k] = w.wrote]
    /\ ringObserved' = [ringObserved EXCEPT ![k] = w.ringObserved]
    /\ UNCHANGED queued

\* one step of the Reconcile of key k; the worker of the other key may be
\* anywhere in its own Reconcile
TenantReconcile(k) ==
    /\ pc[k] # "returned"
    /\ \E o \in OutcomesAt(WorldOf(k)) : InstallFor(k, Step(WorldOf(k), o))

TenantQueueDone(k) ==
    pc[k] = "returned" /\ InstallFor(k, Dequeue(WorldOf(k)))

\* the StatefulSet controller reports every replica of the workload of k ready
TenantWorkloadReady(k) ==
    /\ pc[k] = "idle"
    /\ sts[k].exists /\ sts[k].ready # sts[k].replicas
    /\ sts' = [sts EXCEPT ![k].ready = sts[k].replicas]
    /\ UNCHANGED <<local, cms, svc, np, devcm, cr, fresh, ring, claims>>

InitTwoKeys ==
    /\ cr = [k \in Keys |-> [exists |-> TRUE, deleting |-> FALSE, name |-> k,
                              replicas |-> 1, conds |-> <<>>]]
    /\ cms = {} /\ ring = TRUE /\ devcm = NoResource
    /\ svc = [k \in Keys |-> NoService] /\ np = [k \in Keys |-> NoNetworkPolicy]
    /\ sts = [k \in Keys |-> NoStatefulSet]
    /\ claims \in [Keys -> [0..(MaxReplicas - 1) ->
                                {BoundClaim(b) : b \in ClaimCapacities}]]
    /\ pc = [k \in Keys |-> "idle"] /\ instance = [k \in Keys |-> NoInstance]
    /\ fresh = [k \in Keys |-> TRUE] /\ ssetReady = [k \in Keys |-> 0]
    /\ devices = [k \in Keys |-> ""] /\ result = [k \in Keys |-> ResultDone]
    /\ endedAt = [k \in Keys |-> "none"] /\ io = [k \in Keys |-> "none"]
    /\ wrote = [k \in Keys |-> <<>>] /\ ringObserved = [k \in Keys |-> FALSE]
    /\ queued = TRUE

NextTwoKeys ==
    \E k \in Keys :
        \/ TenantReconcile(k)
        \/ TenantQueueDone(k)
        \/ TenantWorkloadReady(k)

SpecTwoKeys == InitTwoKeys /\ [][NextTwoKeys]_vars

---------------------------------------------------------------------------
(* Re-invocation.  SetupWithManager watches the SwiftStorage objects (For)   *)
(* and the ConfigMaps, StatefulSets, Services and NetworkPolicies they own    *)
(* (Owns): a change of one of them puts the key in the work queue.  A result  *)
(* with an error or with RequeueAfter puts it back.  The ring ConfigMap and   *)
(* the claims are not owned by the object: their changes notify nobody.       *)

\* the result asks for another Reconcile
RetryRequested(res) == res.err \/ res.requeueAfter > 0

\* the step has changed the object or an owned child: a notification follows
Notifies(w) == w.cr # cr \/ <<w.cms, w.svc, w.np, w.sts, w.devcm>> # children

\* the worker takes the queued key and calls Reconcile, or the running
\* Reconcile makes its next call
LiveReconcile ==
    /\ pc # "returned"
    /\ pc = "idle" => queued
    /\ \E o \in OutcomesAt(World) :
         LET w == Step(World, o)
         IN /\ InstallWorld(w)
            /\ queued' = (pc # "idle" /\ (queued \/ Notifies(w)))

\* Reconcile has returned: the key is queued again if the result asks for it
LiveQueueDone ==
    /\ pc = "returned"
    /\ InstallWorld(Dequeue(World))
    /\ queued' = (queued \/ RetryRequested(result))

\* the StatefulSet controller reports another number of ready replicas; the
\* StatefulSet is owned, the key is queued
LiveWorkloadStatus ==
    /\ BeforeRead({"sset"})
    /\ sts.exists
    /\ \E k \in 0..sts.replicas : k # sts.ready /\ sts' = [sts EXCEPT !.ready = k]
    /\ queued' = TRUE
    /\ UNCHANGED <<pc, instance, ssetReady, devices, result, endedAt, io, wrote,
                   ringObserved, cms, svc, np, devcm, cr, fresh, ring, claims>>

NextLive ==
    \/ LiveReconcile
    \/ LiveQueueDone
    \/ LiveWorkloadStatus
    \/ RingChange
    \/ ClaimChange

\* the work queue hands every queued key to the worker, and a Reconcile that
\* was called runs to its return; the object is not edited or deleted
SpecLive ==
    Init /\ [][NextLive]_vars /\ WF_vars(LiveReconcile) /\ WF_vars(LiveQueueDone)

Spec == Init /\ [][Next]_vars

---------------------------------------------------------------------------
(* Properties *)

\* this step is a step of Reconcile taken from position at
StepFrom(at) == pc = at /\ pc' # pc

\* the replica count and existence of the workload, without its status
WorkloadSpec(s) == [exists |-> s.exists, replicas |-> s.replicas]

\* C1: the replica count configured on an existing workload never decreases,
\* whatever Spec.Replicas the user asks for between and during reconciliations
C1_MonotonicReplicas ==
    [][(sts.exists /\ sts'.exists) => sts'.replicas >= sts.replicas]_vars

\* a reconciliation met a smaller request, raised it and applied the workload
C1_Witness ==
    /\ pc = "returned" /\ ~result.err
    /\ {"replicas", "workload"} \subseteq Range(wrote)
    /\ sts.exists /\ sts.replicas = MaxReplicas

\* C2: at the guard with an existing workload of W replicas and a request
\* R < W, Reconcile raises Spec.Replicas to W, persists it, goes on to the
\* workload apply instead of returning an error, and the apply leaves W
C2_ScaleDownGuard ==
    [][ /\ (StepFrom("guardGet") /\ ~IsErr(io') /\ sts.exists
              /\ sts.replicas > instance.replicas)
           => (pc' = "guardUpdate" /\ instance'.replicas = sts.replicas
                 /\ sts' = sts)
        /\ (StepFrom("guardUpdate") /\ ~IsErr(io'))
           => (pc' = "sset" /\ cr'.replicas = instance.replicas
                 /\ instance' = instance /\ sts' = sts
                 /\ (sts.exists => cr'.replicas = sts.replicas))
        /\ (StepFrom("sset") /\ io' = "ok" /\ "replicas" \in Range(wrote))
           => (~result'.err /\ sts'.replicas = instance.replicas
                 /\ (sts.exists => WorkloadSpec(sts') = WorkloadSpec(sts)))
      ]_vars

\* the scenario: a ready workload of MaxReplicas replicas, a smaller request,
\* and the reconciliation has restored the request and returned without error
C2_Witness ==
    /\ pc = "returned" /\ result = ResultDone
    /\ "replicas" \in Range(wrote) /\ "workload" \in Range(wrote)
    /\ sts.exists /\ sts.replicas = MaxReplicas /\ sts.ready = MaxReplicas
    /\ cr.replicas = MaxReplicas

\* C3: the workload is created or updated only by a reconciliation whose ring
\* lookup found the ring bundle
C3_WorkloadAfterRing ==
    [][ /\ (Len(wrote') > Len(wrote) /\ wrote'[Len(wrote')] = "workload")
           => ringObserved
        /\ (sts'.exists /\ WorkloadSpec(sts') # WorkloadSpec(sts))
           => (pc = "sset" /\ ringObserved)
      ]_vars

\* a workload was applied, and the reconciliation had seen the ring bundle
C3_Witness ==
    pc = "returned" /\ "workload" \in Range(wrote) /\ ringObserved /\ sts.exists

\* the condition statuses of a condition list, absent conditions read Unknown
Statuses(conds) == [t \in ConditionTypes |-> StatusOf(conds, t)]

\* C4: with the ring bundle missing, Reconcile returns "retry after 5 s" with
\* no error; up to there it has applied the config bundles only: endpoint,
\* policy, workload, manifest, Spec.Replicas and condition statuses are as
\* they were
C4_RingMissing ==
    [][ /\ (pc \in {"idle", "init", "delguard", "configmaps", "ring"} /\ pc' # pc)
           => /\ svc' = svc /\ np' = np /\ sts' = sts /\ devcm' = devcm
              /\ cr'.replicas = cr.replicas
              /\ Statuses(cr'.conds) = Statuses(cr.conds)
        /\ (StepFrom("ring") /\ ~ring /\ ~IsErr(io'))
           => /\ pc' = "returned"
              /\ result' = [requeueAfter |-> 5, err |-> FALSE]
              /\ Range(wrote') \subseteq {"conditions", "config"}
              /\ "config" \in Range(wrote')
              /\ cms' = cms
      ]_vars

\* a reconciliation ended at the ring lookup with the retry request
C4_Witness ==
    /\ pc = "returned" /\ endedAt = "ring" /\ result = ResultRetry /\ ~ring
    /\ svc = NoService /\ np = NoNetworkPolicy /\ ~sts.exists
    /\ cms # {}

\* C5: Ready and SwiftStorageReady turn True only in the last step of a
\* reconciliation whose workload apply returned a ready-replica count equal to
\* the (possibly corrected) requested count
C5_ReadinessGating ==
    [][ \A t \in ConditionTypes :
          (StatusOf(cr.conds, t) # "True" /\ StatusOf(cr'.conds, t) = "True")
          => /\ pc = "markready"
             /\ "workload" \in Range(wrote)
             /\ ssetReady = instance.replicas
             /\ cr.replicas = instance.replicas
      ]_vars

\* Ready has been set on a workload with replicas
C5_Witness ==
    /\ pc = "returned" /\ "ready" \in Range(wrote)
    /\ StatusOf(cr.conds, ReadyCondition) = "True"
    /\ StatusOf(cr.conds, SwiftStorageReadyCondition) = "True"
    /\ cr.replicas > 0

\* what the platform stores for the object and its children
Stored(w) ==
    [cr |-> w.cr, cms |-> w.cms, svc |-> w.svc, np |-> w.np, sts |-> w.sts,
     devcm |-> w.devcm]

\* a platform call that does not fail
OkOutcome(w) == IF "ok" \in OutcomesAt(w) THEN "ok" ELSE "none"

\* one whole Reconcile with no failing platform call and nothing else changing
RECURSIVE RunReconcile(_)
RunReconcile(w) ==
    IF w.pc = "returned" THEN w ELSE RunReconcile(Step(w, OkOutcome(w)))

\* C6: from every state the platform can be in, a second Reconcile right
\* after the first, with nothing changed in between, leaves the object
\* (Spec.Replicas, conditions) and every child as the first left them
C6_Idempotent ==
    pc = "idle" =>
        LET first == RunReconcile(World)
            second == RunReconcile(Dequeue(first))
        IN Stored(second) = Stored(first)

\* a state from which the first Reconcile changes the children and marks a
\* workload with replicas Ready
C6_Witness ==
    /\ pc = "idle" /\ cr.exists /\ cr.replicas > 0
    /\ StatusOf(cr.conds, ReadyCondition) = "Unknown"
    /\ LET first == RunReconcile(World)
       IN /\ Stored(first) # Stored(World)
          /\ first.devcm # devcm
          /\ StatusOf(first.cr.conds, ReadyCondition) = "True"

\* the full condition list, every status Unknown
FullUnknown ==
    <<UnknownCondition(ReadyCondition), UnknownCondition(SwiftStorageReadyCondition)>>

\* C7: a stored status has no condition or exactly the two condition types;
\* a reconciliation that finds none stores both as Unknown before it writes a
\* child, and returns an error without writing a child when that store fails
C7_InitConditions ==
    /\ [](cr.conds = <<>>
            \/ (Len(cr.conds) = Cardinality(ConditionTypes)
                  /\ TypesOf(cr.conds) = ConditionTypes))
    /\ [][ /\ (StepFrom("init") /\ ConditionsNil(instance) /\ ~IsErr(io'))
              => (cr'.conds = FullUnknown /\ wrote = <<>>
                    /\ wrote' = <<"conditions">> /\ UNCHANGED children)
           /\ (StepFrom("init") /\ ConditionsNil(instance) /\ IsErr(io'))
              => (pc' = "returned" /\ result' = ResultError /\ wrote' = <<>>
                    /\ UNCHANGED <<cr, children>>)
           /\ (children' # children /\ pc' # pc)
              => (~ConditionsNil(instance) /\ pc \notin {"idle", "init"})
         ]_vars

\* the first reconciliation of an object stored the conditions, then children
C7_Witness ==
    /\ pc = "returned" /\ Len(wrote) > 1 /\ wrote[1] = "conditions"
    /\ cr.conds = FullUnknown /\ cms # {}

\* C8: while the object exists, a stored condition type is never removed and
\* the list never shrinks
C8_ConditionsKept ==
    [][(cr.exists /\ cr'.exists)
         => (TypesOf(cr.conds) \subseteq TypesOf(cr'.conds)
               /\ Len(cr'.conds) >= Len(cr.conds))]_vars

\* a later reconciliation has transitioned the conditions it found stored
C8_Witness ==
    /\ pc = "returned" /\ "ready" \in Range(wrote) /\ "conditions" \notin Range(wrote)
    /\ TypesOf(cr.conds) = ConditionTypes
    /\ \A t \in ConditionTypes : StatusOf(cr.conds, t) = "True"

\* C9: a claim of a replica index below Spec.Replicas that is missing, or
\* present without capacity, makes the reconciliation fail at getDeviceList:
\* no manifest is written and the conditions stay as they are
C9_CapacityFailure ==
    [][(StepFrom("claims")
          /\ \E i \in 0..(instance.replicas - 1) : ~claims[i].present \/ ~claims[i].bound)
         => (pc' = "returned" /\ result' = ResultError
               /\ devcm' = devcm /\ cr' = cr)]_vars

\* decimal digits of the small numbers of the manifest
Decimal(k) == <<"0", "1", "2", "3">>[k + 1]

\* whole gigabytes of a capacity: the g with g * 10^9 <= c < (g + 1) * 10^9
WholeGB(c) == CHOOSE g \in 0..2 : c - g * BytesPerGB \in 0..(BytesPerGB - 1)

\* the manifest C10 asks for: lines 0..n-1, line i is "<name>-<i>.<name>,d1,<GB>"
RECURSIVE ExpectedManifest(_, _, _)
ExpectedManifest(name, n, cl) ==
    IF n = 0 THEN ""
    ELSE ExpectedManifest(name, n - 1, cl)
           \o name \o "-" \o Decimal(n - 1) \o "." \o name \o ",d1,"
           \o Decimal(WholeGB(cl[n - 1].capacity)) \o "\n"

AllBound(n, cl) == \A i \in 0..(n - 1) : cl[i].present /\ cl[i].bound

\* C10: with every claim bound, the device list is exactly the N lines
\* "<name>-<i>.<name>,d1,<capacity div 10^9>", i ascending, and it is what the
\* device ConfigMap then holds
C10_DeviceManifest ==
    /\ (pc \in {"devcm", "markready"} /\ AllBound(instance.replicas, claims))
         => devices = ExpectedManifest(instance.name, instance.replicas, claims)
    /\ (pc = "returned" /\ AllBound(cr.replicas, claims))
         => /\ endedAt = "claims" => IsErr(io)
            /\ "manifest" \in Range(wrote)
                 => devcm = ExpectedManifest(cr.name, cr.replicas, claims)

\* the example of the specification, with capacities just under 2 GB and
\* just over: two lines, 1 and 2 gigabytes
C10_Witness ==
    /\ pc = "returned" /\ "manifest" \in Range(wrote)
    /\ cr.name = "alpha" /\ cr.replicas = 2
    /\ claims[0] = BoundClaim(1999999999) /\ claims[1] = BoundClaim(2147483647)
    /\ devcm = "alpha-0.alpha,d1,1\nalpha-1.alpha,d1,2\n"

\* C11: when the object of the key is not found, Reconcile returns the empty
\* result (no error, no retry request) from the load, and neither the children
\* nor the status are written
C11_LoadNotFound ==
    /\ (pc = "idle" /\ ~cr.exists)
         => LET r == Load(World, "ok")
            IN /\ r.pc = "returned" /\ r.endedAt = "load"
               /\ r.result = [requeueAfter |-> 0, err |-> FALSE]
               /\ Stored(r) = Stored(World)
               /\ r.ring = ring /\ r.claims = claims
    /\ (pc = "returned" /\ endedAt = "load" /\ ~IsErr(io))
         => (~cr.exists /\ result = ResultDone /\ wrote = <<>>)

\* the object is gone, children a late reconciliation wrote are still there,
\* and a reconciliation has returned from the load
C11_Witness ==
    /\ pc = "returned" /\ endedAt = "load" /\ io = "ok" /\ ~cr.exists
    /\ result = ResultDone /\ sts.exists /\ cms # {}

\* C12: a reconciliation that loaded an object with a deletion timestamp ends
\* at the guard with the empty result; up to and including the guard no child
\* (config bundles, endpoint, policy, workload, manifest) is created or changed
\* and Spec.Replicas stays as stored
C12_DeletionGuard ==
    /\ (pc \in {"idle", "init", "delguard"})
         => \A o \in OutcomesAt(World) :
              LET r == Step(World, o)
              IN /\ <<r.cms, r.svc, r.np, r.sts, r.devcm>> = children
                 /\ r.cr.replicas = cr.replicas
                 /\ (pc = "delguard" /\ instance.deleting)
                      => (r.pc = "returned" /\ r.result = ResultDone)
                 /\ (pc = "init" /\ instance.deleting /\ ~IsErr(o))
                      => (r.pc = "delguard" /\ r.instance.deleting)
    /\ (pc \notin {"idle", "init", "delguard", "returned"}) => ~instance.deleting
    /\ (pc = "returned" /\ endedAt = "delguard")
         => (result = ResultDone /\ Range(wrote) \subseteq {"conditions"})

\* a deployed object was deleted; its reconciliation stopped at the guard and
\* the children and the replica count are as they were
C12_Witness ==
    /\ pc = "returned" /\ endedAt = "delguard" /\ result = ResultDone
    /\ cr.exists /\ cr.deleting /\ cr.replicas = MaxReplicas
    /\ sts.exists /\ sts.replicas = MaxReplicas /\ devcm # NoResource /\ wrote = <<>>

\* C13: an object asking for N >= 1 replicas, no workload yet, the ring bundle
\* present, no failing call: one Reconcile leaves both config bundles, the
\* endpoint, the policy and a workload of exactly N replicas, returns the empty
\* result, and Ready and SwiftStorageReady are stored as Unknown
C13_FirstReconcile ==
    (pc = "idle" /\ cr.exists /\ ~cr.deleting /\ cr.replicas >= 1 /\ ~sts.exists /\ ring)
      => LET r == RunReconcile(World)
         IN /\ Range(getStorageConfigMapTemplates(cr.name)) \subseteq r.cms
            /\ r.svc = getStorageService(cr.name)
            /\ r.np = getStorageNetworkPolicy(cr.name)
            /\ r.sts.exists /\ r.sts.replicas = cr.replicas /\ r.sts.ready = 0
            /\ r.cr.replicas = cr.replicas
            /\ r.devcm = devcm
            /\ r.cr.conds = FullUnknown
            /\ r.result = ResultDone /\ r.endedAt = "sset"

\* the first reconciliation of an object with MaxReplicas replicas has
\* returned after creating the four children, Ready is Unknown
C13_Witness ==
    /\ pc = "returned" /\ endedAt = "sset" /\ result = ResultDone
    /\ wrote = <<"conditions", "config", "endpoint", "policy", "workload">>
    /\ cr.replicas = MaxReplicas
    /\ cms = Range(getStorageConfigMapTemplates(cr.name))
    /\ svc = getStorageService(cr.name) /\ np = getStorageNetworkPolicy(cr.name)
    /\ sts = [exists |-> TRUE, replicas |-> MaxReplicas, ready |-> 0]
    /\ devcm = NoResource
    /\ \A t \in ConditionTypes : StatusOf(cr.conds, t) = "Unknown"

\* the writes a reconciliation can have made before it reaches a position
WritesBefore(at) ==
    CASE at \in {"load", "init"} -> {}
      [] at \in {"delguard", "configmaps"} -> {"conditions"}
      [] at \in {"ring", "service"} -> {"conditions", "config"}
      [] at = "netpol" -> {"conditions", "config", "endpoint"}
      [] at \in {"guardGet", "guardUpdate"} -> {"conditions", "config", "endpoint", "policy"}
      [] at = "sset" -> {"conditions", "config", "endpoint", "policy", "replicas"}
      [] at \in {"claims", "devcm"} ->
           {"conditions", "config", "endpoint", "policy", "replicas", "workload"}
      [] at = "markready" ->
           {"conditions", "config", "endpoint", "policy", "replicas", "workload",
            "manifest"}

\* C14: a failing platform call, at whichever step, ends Reconcile there with
\* the error; the failed step has changed nothing (the config apply may have
\* stored its first bundle before the second failed) and no later step runs;
\* a claim that is not found fails the claim read in the same way
C14_PlatformFailure ==
    /\ (pc # "returned")
         => \A o \in OutcomesAt(World) :
              IsErr(o) =>
                LET r == Step(World, o)
                IN /\ r.pc = "returned" /\ r.result.err /\ r.io = o
                   /\ r.endedAt = (IF pc = "idle" THEN "load" ELSE pc)
                   /\ r.cr = cr /\ r.svc = svc /\ r.np = np /\ r.sts = sts
                   /\ r.devcm = devcm
                   /\ IF o = "err2"
                      THEN /\ pc = "configmaps"
                           /\ cms \subseteq r.cms
                           /\ r.cms \subseteq
                                cms \cup Range(getStorageConfigMapTemplates(instance.name))
                      ELSE r.cms = cms /\ r.wrote = wrote
    /\ (pc = "returned" /\ IsErr(io))
         => /\ result = ResultError
            /\ Range(wrote) \subseteq
                 WritesBefore(endedAt) \cup (IF io = "err2" THEN {"config"} ELSE {})
    /\ (pc = "claims" /\ \E i \in 0..(instance.replicas - 1) : ~claims[i].present)
         => LET r == Step(World, "ok")
            IN r.pc = "returned" /\ r.result = ResultError /\ Stored(r) = Stored(World)

\* a reconciliation failed at the policy apply: the endpoint is written, the
\* policy and the workload are not
C14_Witness ==
    /\ pc = "returned" /\ endedAt = "netpol" /\ io = "err" /\ result = ResultError
    /\ wrote = <<"conditions", "config", "endpoint">>
    /\ svc # NoService /\ np = NoNetworkPolicy /\ ~sts.exists

\* the objects (kind and name) behind a write of the reconciliation of an
\* object called name
ResourcesOf(name, what) ==
    CASE what \in {"conditions", "replicas", "ready"} -> {<<"SwiftStorage", name>>}
      [] what = "config" ->
           {<<"ConfigMap", n>> : n \in Range(getStorageConfigMapTemplates(name))}
      [] what = "endpoint" -> {<<"Service", getStorageService(name).name>>}
      [] what = "policy" -> {<<"NetworkPolicy", getStorageNetworkPolicy(name).name>>}
      [] what = "workload" ->
           {<<"StatefulSet", getStorageStatefulSet([name |-> name, replicas |-> 0]).name>>}
      [] what = "manifest" -> {<<"ConfigMap", DeviceConfigMapName>>}

\* the objects the running (or just returned) reconciliation of k has written
WrittenBy(k) == UNION {ResourcesOf(k, wrote[k][i]) : i \in DOMAIN wrote[k]}

\* the objects its calls have read: what it applied (an apply reads first),
\* the ring bundle, and the manifest when the apply of it was refused
ReadBy(k) ==
    WrittenBy(k)
      \cup (IF ringObserved[k] THEN {<<"ConfigMap", RingConfigMapName>>} ELSE {})
      \cup (IF pc[k] = "returned" /\ endedAt[k] = "devcm"
            THEN {<<"ConfigMap", DeviceConfigMapName>>} ELSE {})

\* C15: for two objects of one namespace, the reconciliation of one reads or
\* writes no object that the reconciliation of the other writes
C15_OwnershipIsolation ==
    \A a \in Keys : \A b \in Keys \ {a} : ReadBy(a) \cap WrittenBy(b) = {}

\* the phases between the deletion guard and the final status update whose
\* call reads or applies a child
ChildPhases ==
    {"configmaps", "ring", "service", "netpol", "guardGet", "sset", "claims", "devcm"}

\* C16: a reconciliation that ended with the error of a failed phase has
\* stored a condition with status False, so that the failure shows in the
\* conditions of the object
C16_FailureCondition ==
    (pc = "returned" /\ result.err /\ endedAt \in ChildPhases /\ cr.exists)
      => \E t \in ConditionTypes : StatusOf(cr.conds, t) = "False"

\* Ready is stored as True
ReadyTrue == StatusOf(cr.conds, ReadyCondition) = "True"

\* the platform call of this step did not fail
NoFailure == io' \notin {"err", "err2", "requeue"}

Existing(w) ==
    w.cms
      \cup (IF w.svc # NoService THEN {"Service"} ELSE {})
      \cup (IF w.np # NoNetworkPolicy THEN {"NetworkPolicy"} ELSE {})
      \cup (IF w.sts.exists THEN {"StatefulSet"} ELSE {})
      \cup (IF w.devcm # NoResource THEN {"DeviceConfigMap"} ELSE {})

\* C18: no step of Reconcile, whatever its call returns, removes a child or
\* the object, and so a whole Reconcile leaves every child that existed
C18_NoDeletes ==
    /\ (pc # "returned")
         => \A o \in OutcomesAt(World) :
              LET r == Step(World, o)
              IN /\ Existing(World) \subseteq Existing(r)
                 /\ r.cr.exists = cr.exists
                 /\ r.claims = claims /\ r.ring = ring
    /\ (pc = "idle") => Existing(World) \subseteq Existing(RunReconcile(World))

\* all five children exist, the workload is no longer ready, and a
\* reconciliation has returned at the readiness check: nothing was removed
C18_Witness ==
    /\ pc = "returned" /\ endedAt = "sset" /\ result = ResultDone
    /\ "conditions" \notin Range(wrote)
    /\ sts.exists /\ sts.ready < sts.replicas
    /\ Existing(World) =
         Range(getStorageConfigMapTemplates(cr.name))
           \cup {"Service", "NetworkPolicy", "StatefulSet", "DeviceConfigMap"}

\* the port a container declares under a name
PortNamed(n) ==
    LET i == CHOOSE j \in DOMAIN ContainerPorts : ContainerPorts[j].name = n
    IN ContainerPorts[i].containerPort

\* the port of the cache process
CachePort == PortNamed("memcached")

\* every port an ingress rule of a policy allows
PolicyPorts(p) == UNION {Range(p.ingress[i].ports) : i \in DOMAIN p.ingress}

\* C19: the Service has exactly the four ports account, container, object and
\* rsync, each with the port its container declares; the port of the
\* memcached container is no port of the Service and no port of a rule of the
\* NetworkPolicy
C19_EndpointPorts ==
    /\ (svc # NoService)
         => /\ Len(svc.ports) = 4
            /\ {<<svc.ports[i].name, svc.ports[i].port>> : i \in DOMAIN svc.ports}
                 = {<<n, PortNamed(n)>> : n \in {"account", "container", "object", "rsync"}}
            /\ \A i \in DOMAIN svc.ports :
                 svc.ports[i].port # CachePort /\ svc.ports[i].name # "memcached"
    /\ (np # NoNetworkPolicy) => CachePort \notin PolicyPorts(np)

\* a reconciliation has applied the Service and the NetworkPolicy
C19_Witness ==
    /\ pc = "returned" /\ {"endpoint", "policy"} \subseteq Range(wrote)
    /\ svc # NoService /\ np # NoNetworkPolicy /\ svc.clusterIP = "None"

\* C20: the NetworkPolicy selects the storage pods and has exactly two ingress
\* rules: from the storage pods on the account, container, object and rsync
\* ports, and from the proxy pods on the account, container and object ports,
\* without rsync
C20_IsolationPolicy ==
    (np # NoNetworkPolicy)
      => /\ np.podSelector = GetLabelsStorage
         /\ Len(np.ingress) = 2
         /\ \E i \in 1..2 :
              /\ np.ingress[i].from = <<GetLabelsStorage>>
              /\ Len(np.ingress[i].ports) = 4
              /\ Range(np.ingress[i].ports)
                   = {PortNamed(n) : n \in {"account", "container", "object", "rsync"}}
         /\ \E i \in 1..2 :
              /\ np.ingress[i].from = <<GetLabelsProxy>>
              /\ Len(np.ingress[i].ports) = 3
              /\ Range(np.ingress[i].ports)
                   = {PortNamed(n) : n \in {"account", "container", "object"}}
              /\ PortNamed("rsync") \notin Range(np.ingress[i].ports)

\* a reconciliation has applied the NetworkPolicy of the object
C20_Witness ==
    /\ pc = "returned" /\ endedAt = "guardGet" /\ "policy" \in Range(wrote)
    /\ np # NoNetworkPolicy /\ np.name = "np-alpha" /\ ~sts.exists

\* the writes of Reconcile in the order of its text
PhaseOrder ==
    <<"conditions", "config", "endpoint", "policy", "replicas", "workload",
      "manifest", "ready">>

Rank(what) == CHOOSE i \in DOMAIN PhaseOrder : PhaseOrder[i] = what

\* the positions of Reconcile in the order of its text
Positions ==
    <<"idle", "init", "delguard", "configmaps", "ring", "service", "netpol",
      "guardGet", "guardUpdate", "sset", "claims", "devcm", "markready">>

PositionOf(at) == CHOOSE i \in DOMAIN Positions : Positions[i] = at

\* the writes a reconciliation must have made to be at a position
WritesRequired(at) ==
    CASE at \in {"idle", "init", "delguard", "configmaps"} -> {}
      [] at \in {"ring", "service"} -> {"config"}
      [] at = "netpol" -> {"config", "endpoint"}
      [] at \in {"guardGet", "guardUpdate", "sset"} -> {"config", "endpoint", "policy"}
      [] at \in {"claims", "devcm"} -> {"config", "endpoint", "policy", "workload"}
      [] at = "markready" ->
           {"config", "endpoint", "policy", "workload", "manifest"}

\* C21: the writes of one reconciliation come in the order config bundles,
\* endpoint, policy, replica correction, workload, manifest, Ready; a phase is
\* reached only with every earlier write made and after a call that neither
\* failed nor asked for a retry; a retry result of the ring lookup or of the
\* endpoint, policy or workload apply ends Reconcile with that retry, no error
C21_PhaseOrder ==
    /\ \A i \in DOMAIN wrote : \A j \in DOMAIN wrote :
         i < j => Rank(wrote[i]) < Rank(wrote[j])
    /\ (pc \notin {"idle", "returned"})
         => /\ WritesRequired(pc) \subseteq Range(wrote)
            /\ io \in {"ok", "none"}
            /\ PositionOf(pc) > PositionOf("ring") => ringObserved
    /\ (pc # "returned")
         => \A o \in OutcomesAt(World) :
              LET r == Step(World, o)
              IN /\ (IsErr(o) \/ o = "requeue") => r.pc = "returned"
                 /\ (o = "requeue" \/ (pc = "ring" /\ ~ring /\ ~IsErr(o)))
                      => /\ pc \in {"ring", "service", "netpol", "sset"}
                         /\ r.pc = "returned"
                         /\ r.result = [requeueAfter |-> RequeueSeconds, err |-> FALSE]
                         /\ r.wrote = wrote /\ Stored(r) = Stored(World)
                 /\ (r.pc # "returned") => PositionOf(r.pc) > PositionOf(pc)

\* one reconciliation has made every write of the list, the replica
\* correction included
C21_Witness ==
    /\ pc = "returned" /\ result = ResultDone
    /\ wrote = <<"config", "endpoint", "policy", "replicas", "workload",
                 "manifest", "ready">>

\* C22: the workload apply succeeded and the ready-replica count it returned
\* differs from the requested count: Reconcile returns the empty result (no
\* error, no retry), without reading a claim, writing the manifest or touching
\* the stored object and its conditions
C22_ReadinessNotMet ==
    /\ (pc = "sset")
         => LET r == Step(World, "ok")
                live == IF sts.exists THEN sts.ready ELSE 0
            IN (live # instance.replicas)
                 => /\ r.pc = "returned" /\ r.endedAt = "sset"
                    /\ r.result = [requeueAfter |-> 0, err |-> FALSE]
                    /\ r.devcm = devcm /\ r.claims = claims
                    /\ r.cr = cr
                    /\ r.wrote = Append(wrote, "workload")
                    /\ r.sts.ready = live
    /\ (pc = "returned" /\ endedAt = "sset" /\ io = "ok")
         => /\ result = ResultDone
            /\ sts.exists /\ sts.ready # sts.replicas
            /\ Range(wrote) \cap {"manifest", "ready"} = {}

\* a workload that was Ready lost a replica; the next reconciliation applied
\* it and returned at the readiness check, the manifest and Ready are kept
C22_Witness ==
    /\ pc = "returned" /\ endedAt = "sset" /\ io = "ok" /\ result = ResultDone
    /\ sts.exists /\ sts.replicas = MaxReplicas /\ sts.ready = MaxReplicas - 1
    /\ devcm # NoResource
    /\ wrote = <<"config", "endpoint", "policy", "workload">>

\* the device list of the claims as they are, no Get failing
Rendered(inst) == getDeviceList(inst.name, inst.replicas, claims, -1)

\* C23: the two conditions are marked True only by a reconciliation that has
\* read the claims of all N replicas, rendered the manifest from them and
\* applied it; a failed claim read or a failed manifest apply ends the
\* reconciliation with the conditions as they were
C23_ReadyAfterManifest ==
    /\ (pc = "markready")
         => /\ "manifest" \in Range(wrote)
            /\ \A i \in 0..(instance.replicas - 1) : claims[i].present
            /\ ~Rendered(instance).err /\ devices = Rendered(instance).devices
    /\ ("ready" \in Range(wrote))
         => \E i \in DOMAIN wrote : \E j \in DOMAIN wrote :
              i < j /\ wrote[i] = "manifest" /\ wrote[j] = "ready"
    /\ (pc # "returned")
         => \A o \in OutcomesAt(World) :
              LET r == Step(World, o)
              IN /\ (Statuses(r.cr.conds) # Statuses(cr.conds)
                       /\ \E t \in ConditionTypes : StatusOf(r.cr.conds, t) = "True")
                      => (pc = "markready" /\ ~IsErr(o))
                 /\ (pc = "claims" /\ (IsErr(o) \/ Rendered(instance).err))
                      => (r.pc = "returned" /\ r.result.err /\ r.cr = cr
                            /\ r.devcm = devcm)
                 /\ (pc = "devcm" /\ IsErr(o))
                      => (r.pc = "returned" /\ r.result.err /\ r.cr = cr
                            /\ r.devcm = devcm)
                 /\ (pc = "devcm" /\ ~IsErr(o)) => r.devcm = devices

\* the claims of MaxReplicas replicas were read, the manifest rendered from
\* them was applied, and then Ready was stored
C23_Witness ==
    /\ pc = "returned" /\ endedAt = "markready" /\ io = "ok"
    /\ cr.replicas = MaxReplicas /\ AllBound(MaxReplicas, claims)
    /\ devcm = Rendered(cr).devices /\ devcm # ""
    /\ \A t \in ConditionTypes : StatusOf(cr.conds, t) = "True"

MaxOf(a, b) == IF a > b THEN a ELSE b

C25_ManifestFreshness ==
    /\ (pc = "sset")
         => LET r == Step(World, "ok")
                live == IF sts.exists THEN sts.ready ELSE 0
            IN (live = instance.replicas) => r.pc = "claims"
    /\ (pc = "claims" /\ \A i \in 0..(instance.replicas - 1) : claims[i].present)
         => LET r == Step(World, "ok")
            IN r.pc = "devcm" /\ r.devices = Rendered(instance).devices
    /\ (pc = "devcm")
         => LET r == Step(World, "ok")
            IN /\ devices = Rendered(instance).devices
               /\ r.pc = "markready" /\ r.devcm = devices
               /\ r.wrote = Append(wrote, "manifest")
    /\ (pc = "returned" /\ "manifest" \in Range(wrote) /\ cr.exists /\ sts.exists)
         => devcm = getDeviceList(cr.name, sts.replicas, claims, -1).devices
    /\ (pc = "idle" /\ cr.exists /\ ~cr.deleting /\ ring)
         => LET r == RunReconcile(World)
                live == IF sts.exists THEN sts.ready ELSE 0
                requested == MaxOf(IF sts.exists THEN sts.replicas ELSE 0, cr.replicas)
            IN (live = requested /\ \A i \in 0..(requested - 1) : claims[i].present)
                 => /\ "manifest" \in Range(r.wrote)
                    /\ r.devcm = getDeviceList(cr.name, requested, claims, -1).devices

\* the object is Ready already and holds a manifest; a later reconciliation
\* has read the claims again and applied the list rendered from them
C25_Witness ==
    /\ pc = "markready" /\ ReadyTrue /\ "conditions" \notin Range(wrote)
    /\ "manifest" \in Range(wrote)
    /\ instance.replicas = MaxReplicas
    /\ devcm = Rendered(instance).devices /\ devcm # ""

\* the containers that run a Swift process of a role, named <ring>-<process>
RoleContainers ==
    {r \o "-" \o p : r \in {"account", "container", "object"},
                     p \in {"server", "replicator", "auditor", "reaper", "updater",
                            "expirer"}}

\* the container names of the pod template, in the order of the list
ContainerOrder ==
    <<"account-server", "account-replicator", "account-auditor", "account-reaper",
      "container-server", "container-replicator", "container-auditor",
      "container-updater", "object-server", "object-replicator", "object-auditor",
      "object-updater", "object-expirer", "rsync", "memcached", "ring-sync">>

\* C26: the workload Reconcile applies has the containers in the fixed order
\* (role processes, rsync, cache, ring sync); every role container runs the
\* executable of its own role, so no auditor or updater runs the replicator,
\* and no two containers have the same command
C26_RoleCommands ==
    (pc = "sset")
      => LET cs == getStorageStatefulSet(instance).containers
         IN /\ [i \in DOMAIN cs |-> cs[i].name] = ContainerOrder
            /\ \A i \in DOMAIN cs :
                 cs[i].name \in RoleContainers
                   => cs[i].command[1] = "/usr/bin/swift-" \o cs[i].name
            /\ \A i \in DOMAIN cs : \A j \in DOMAIN cs :
                 cs[i].name # cs[j].name => cs[i].command # cs[j].command

\* C27: a condition stored as True stays True through every step of every
\* later reconciliation, whatever the calls return and however many replicas
\* are ready; no stored condition is ever False
C27_ReadySticky ==
    /\ \A t \in ConditionTypes : StatusOf(cr.conds, t) \in {"Unknown", "True"}
    /\ (pc # "returned")
         => \A o \in OutcomesAt(World) :
              LET r == Step(World, o)
              IN \A t \in ConditionTypes :
                   StatusOf(cr.conds, t) = "True" => StatusOf(r.cr.conds, t) = "True"
    /\ (pc = "idle" /\ ReadyTrue) => StatusOf(RunReconcile(World).cr.conds, ReadyCondition) = "True"

\* Ready is True, the request was raised after that, and a reconciliation has
\* applied the larger workload and returned with fewer replicas ready than
\* requested: Ready is still True
C27_Witness ==
    /\ pc = "returned" /\ endedAt = "sset" /\ io = "ok" /\ ReadyTrue
    /\ StatusOf(cr.conds, SwiftStorageReadyCondition) = "True"
    /\ cr.replicas = MaxReplicas /\ sts.replicas = MaxReplicas
    /\ sts.ready < cr.replicas

\* C28: when the Update that persists the raised replica count fails,
\* Reconcile returns the error from there: the workload is not applied and
\* keeps its larger replica count, the stored request stays as it was; and a
\* workload is never applied with fewer replicas than it has
C28_GuardUpdateFails ==
    /\ (pc = "guardUpdate")
         => /\ cr.exists => (sts.exists /\ instance.replicas = sts.replicas)
            /\ LET r == Step(World, "err")
               IN /\ r.pc = "returned" /\ r.endedAt = "guardUpdate"
                  /\ r.result = [requeueAfter |-> 0, err |-> TRUE]
                  /\ r.sts = sts /\ r.cr = cr /\ r.devcm = devcm
                  /\ r.wrote = wrote /\ "workload" \notin Range(wrote)
    /\ (pc = "returned" /\ endedAt = "guardUpdate")
         => (IsErr(io) /\ result.err /\ "workload" \notin Range(wrote)
               /\ "replicas" \notin Range(wrote) /\ (cr.exists => sts.exists))
    /\ (pc = "sset" /\ sts.exists)
         => \A o \in OutcomesAt(World) : Step(World, o).sts.replicas >= sts.replicas

\* a workload of MaxReplicas replicas, a smaller stored request, and the
\* reconciliation has returned the error of the failed Update
C28_Witness ==
    /\ pc = "returned" /\ endedAt = "guardUpdate" /\ io = "err" /\ result = ResultError
    /\ sts.exists /\ sts.replicas = MaxReplicas /\ cr.exists /\ cr.replicas < MaxReplicas
    /\ wrote = <<"config", "endpoint", "policy">>

\* C29: in every stored status Ready and SwiftStorageReady have the same
\* status value; the Init stores both as Unknown in one update and the final
\* step stores both as True in one update
C29_ConditionsAgree ==
    /\ StatusOf(cr.conds, ReadyCondition) = StatusOf(cr.conds, SwiftStorageReadyCondition)
    /\ (pc = "init" /\ ConditionsNil(instance) /\ fresh)
         => LET r == Step(World, "ok")
            IN /\ \A t \in ConditionTypes : StatusOf(r.cr.conds, t) = "Unknown"
               /\ TypesOf(r.cr.conds) = ConditionTypes
               /\ r.wrote = Append(wrote, "conditions")
    /\ (pc = "markready" /\ fresh)
         => LET r == Step(World, "ok")
            IN /\ \A t \in ConditionTypes : StatusOf(r.cr.conds, t) = "True"
               /\ r.wrote = Append(wrote, "ready")

\* one reconciliation has stored both conditions as Unknown and, at its end,
\* both as True
C29_Witness ==
    /\ pc = "returned" /\ Len(wrote) > 1
    /\ wrote[1] = "conditions" /\ wrote[Len(wrote)] = "ready"
    /\ cr.conds = <<TrueCondition(ReadyCondition),
                    TrueCondition(SwiftStorageReadyCondition)>>

\* C30: when the Get of the claim of some replica index fails, by a failing
\* call or because the claim is not there, getDeviceList returns the empty
\* string with the error, whatever lines it had written for lower indices;
\* Reconcile returns the error and the stored manifest is as it was
C30_NoPartialManifest ==
    /\ (pc = "claims")
         => /\ \A i \in 0..(instance.replicas - 1) :
                 getDeviceList(instance.name, instance.replicas, claims, i)
                   = [devices |-> "", err |-> TRUE]
            /\ \A o \in OutcomesAt(World) :
                 (IsErr(o) \/ \E i \in 0..(instance.replicas - 1) : ~claims[i].present)
                   => LET r == Step(World, o)
                      IN /\ Rendered(instance).err \/ IsErr(o)
                         /\ r.pc = "returned" /\ r.result = ResultError
                         /\ r.devices = "" /\ r.devcm = devcm
                         /\ r.wrote = wrote
    /\ (pc = "claims" /\ \E i \in 0..(instance.replicas - 1) : ~claims[i].present)
         => Rendered(instance) = [devices |-> "", err |-> TRUE]
    /\ (pc = "returned" /\ endedAt = "claims")
         => (result = ResultError /\ "manifest" \notin Range(wrote))

\* the manifest of MaxReplicas bound claims was published, then the claim of
\* the last replica was removed: the next reconciliation read the claims
\* below it, failed at the last, and the stored manifest is the full old one
C30_Witness ==
    /\ pc = "returned" /\ endedAt = "claims" /\ io = "ok" /\ result = ResultError
    /\ MaxReplicas > 1 /\ cr.replicas = MaxReplicas
    /\ AllBound(MaxReplicas - 1, claims) /\ ~claims[MaxReplicas - 1].present
    /\ \E b \in ClaimCapacities :
         devcm = getDeviceList(cr.name, MaxReplicas,
                               [claims EXCEPT ![MaxReplicas - 1] = BoundClaim(b)],
                               -1).devices

\* C31: an object asking for 0 replicas, no workload yet, the ring bundle
\* present and no failing call: the first Reconcile creates the workload,
\* finds 0 ready replicas equal to the 0 requested, reads no claim (the device
\* list is empty whatever the claims are and whichever Get would fail),
\* applies the empty manifest and stores both conditions as True
C31_ZeroReplicas ==
    /\ (pc = "idle" /\ cr.exists /\ ~cr.deleting /\ cr.replicas = 0 /\ ~sts.exists /\ ring)
         => LET r == RunReconcile(World)
            IN /\ r.result = ResultDone /\ r.endedAt = "markready"
               /\ r.sts = [exists |-> TRUE, replicas |-> 0, ready |-> 0]
               /\ r.devcm = "" /\ r.claims = claims
               /\ \A t \in ConditionTypes : StatusOf(r.cr.conds, t) = "True"
               /\ Len(r.wrote) >= 6
               /\ SubSeq(r.wrote, Len(r.wrote) - 5, Len(r.wrote))
                    = <<"config", "endpoint", "policy", "workload", "manifest", "ready">>
    /\ (pc = "claims" /\ instance.replicas = 0)
         => /\ OutcomesAt(World) = {"ok"}
            /\ \A i \in -1..(MaxReplicas - 1) :
                 getDeviceList(instance.name, 0, claims, i) = [devices |-> "", err |-> FALSE]
            /\ LET r == Step(World, "ok")
               IN r.pc = "devcm" /\ r.devices = ""

\* the first reconciliation of an object with 0 replicas has returned: a
\* workload of 0 replicas, no claim anywhere, the empty manifest, Ready True
C31_Witness ==
    /\ pc = "returned" /\ result = ResultDone
    /\ wrote = <<"conditions", "config", "endpoint", "policy", "workload",
                 "manifest", "ready">>
    /\ cr.replicas = 0 /\ sts = [exists |-> TRUE, replicas |-> 0, ready |-> 0]
    /\ \A i \in DOMAIN claims : ~claims[i].present
    /\ devcm = "" /\ ReadyTrue

====
